---- MODULE Spec2Model ----
(***************************************************************************)
(* A model of src/utils.js: onNewElement (the subtree insertion watcher),  *)
(* waitForElement (the single element waiter) and                          *)
(* isElementEffectivelyHidden (the visibility test), together with the     *)
(* part of the host (document tree, MutationObserver) that their behaviour *)
(* depends on.                                                             *)
(*                                                                         *)
(* The host is single threaded: a MutationObserver callback runs to        *)
(* completion in a microtask, so one action models one whole handler run,  *)
(* the callbacks it makes included.  What the caller's callback does is an *)
(* input of that action (it may call disconnect on its own observer).      *)
(***************************************************************************)
EXTENDS Integers, Sequences, FiniteSets, TLC

(* ------------------------------ bounds -------------------------------- *)
\* steps of the page's scripts: nodes created, tree and attribute
\* mutations, disconnect() calls of the caller.  It bounds the nodes, the
\* pending records and the batches as well.
MaxOps == 4

(* --------------------------- the document ----------------------------- *)
\* document.body
Body == 0
\* the part of the document outside document.body (document.head)
DocHead == MaxOps + 1
\* null / undefined
NoNode == MaxOps + 2

Created == 1..MaxOps
Nodes == {Body, DocHead} \cup Created

VARIABLES
    kind,             \* kind[n]: "none" (not created), "el" (HTMLElement), "text"
    match,            \* match[n]: the element n matches the selector
    children,         \* children[n]: the child nodes of n, in order
    ops,              \* steps the page's scripts have taken so far
    targetNode,       \* onNewElement: the targetNode argument
    stopOnFirstFind,  \* onNewElement: the stopOnFirstFind argument
    ret,              \* onNewElement: "none" (not called), "null", "observer"
    observing,        \* the observer of onNewElement is registered with the host
    queue,            \* the record queue of that observer
    calls,            \* the elements passed to callback, in order
    lateCalls,        \* callback invocations begun after a disconnect() returned
    cancels,          \* disconnect() calls made by the caller
    batches,          \* handler runs of the observer of onNewElement
    diag,             \* console.error calls of onNewElement
    promise,          \* waitForElement: "none" (not called), "pending", "resolved"
    value,            \* waitForElement: the element the promise resolved with
    wObserving,       \* the observer of waitForElement is registered
    wQueue,           \* the record queue of that observer
    wBatches,         \* handler runs of the observer of waitForElement
    element,          \* isElementEffectivelyHidden: the element argument
    window,           \* the viewport: window.innerWidth, window.innerHeight
    hidden            \* what the calls of isElementEffectivelyHidden returned

domVars == <<kind, match, children, ops>>
watchVars == <<targetNode, stopOnFirstFind, ret, observing, queue, calls,
               lateCalls, cancels, batches, diag>>
waitVars == <<promise, value, wObserving, wQueue, wBatches>>
hideVars == <<element, window, hidden>>
vars == <<kind, match, children, ops, targetNode, stopOnFirstFind, ret, observing,
          queue, calls, lateCalls, cancels, batches, diag, promise, value,
          wObserving, wQueue, wBatches, element, window, hidden>>

(* ---------------------- host: tree and selectors ---------------------- *)
IsElement(n) == n \in {Body, DocHead} \/ (n \in Created /\ kind[n] = "el")

\* the elements of a sequence, as a set
Range(s) == {s[i] : i \in 1..Len(s)}

\* n has no parent
Detached(n) == \A p \in Nodes : n \notin Range(children[p])

RECURSIVE Flatten(_)
Flatten(ss) == IF ss = <<>> THEN <<>> ELSE Head(ss) \o Flatten(Tail(ss))

\* n and its descendants in document order (preorder, depth first)
RECURSIVE Subtree(_)
Subtree(n) ==
    <<n>> \o Flatten([i \in 1..Len(children[n]) |-> Subtree(children[n][i])])

\* the descendants of n in document order
Descendants(n) == Tail(Subtree(n))

\* node.matches(selector)
Matches(n) == n \in Created /\ kind[n] = "el" /\ match[n]

\* mutant of QuerySelectorAll: only the first matching descendant
QuerySelectorAllFirst(n) ==
    LET all == SelectSeq(Descendants(n), Matches)
    IN  IF all = <<>> THEN <<>> ELSE <<Head(all)>>

\* node.querySelectorAll(selector): the matching descendants, in document order
QuerySelectorAll(n) == SelectSeq(Descendants(n), Matches)

\* mutant of QuerySelector: the last matching descendant
QuerySelectorLast(n) ==
    IF QuerySelectorAll(n) = <<>> THEN NoNode
    ELSE QuerySelectorAll(n)[Len(QuerySelectorAll(n))]

\* node.querySelector(selector): the first matching descendant, or null
QuerySelector(n) ==
    IF QuerySelectorAll(n) = <<>> THEN NoNode ELSE Head(QuerySelectorAll(n))

\* mutant of DocumentQuerySelector: the last match in the whole document
DocumentQuerySelectorLast ==
    LET all == SelectSeq(Subtree(DocHead) \o Subtree(Body), Matches)
    IN  IF all = <<>> THEN NoNode ELSE all[Len(all)]

\* document.querySelector(selector): the first match in the whole document
DocumentQuerySelector ==
    LET all == SelectSeq(Subtree(DocHead) \o Subtree(Body), Matches)
    IN  IF all = <<>> THEN NoNode ELSE Head(all)

(* ---------------------- host: MutationObserver ------------------------ *)
\* a MutationRecord of an observer configured {childList, subtree}
Record(added, removed) ==
    [type |-> "childList", addedNodes |-> added, removedNodes |-> removed]

\* a mutation with target p is seen by an observer of root (subtree: true)
Observes(root, p) == p \in Range(Subtree(root))

\* mutant of Disconnect: the registration is toggled
DisconnectToggle(active, q) == [observing |-> ~active, queue |-> <<>>]

\* observer.disconnect(): the registration is dropped and the record queue
\* is emptied
Disconnect(active, q) == [observing |-> FALSE, queue |-> <<>>]

\* observer.takeRecords(): the pending records (the queue is emptied)
TakeRecords(q) == q

\* the record queues after a childList mutation with target p
Enqueue(q, active, root, p, rec) ==
    IF active /\ Observes(root, p) THEN Append(q, rec) ELSE q

(* ------------------------ the page's scripts -------------------------- *)
\* p.appendChild(document.createElement(..)) or createTextNode: a new node
\* is appended to p (one childList record with addedNodes = <<n>>), or is
\* left detached (p = NoNode); m: the new element matches the selector
CreateNode(k, m, p) ==
    /\ p = NoNode \/ IsElement(p)
    /\ ops < MaxOps /\ ops' = ops + 1
    /\ \E n \in Created :
        /\ kind[n] = "none"
        /\ \A i \in 1..(n - 1) : kind[i] # "none"
        /\ kind' = [kind EXCEPT ![n] = k]
        /\ match' = [match EXCEPT ![n] = (k = "el" /\ m)]
        /\ IF p = NoNode
           THEN UNCHANGED <<children, queue, wQueue>>
           ELSE /\ children' = [children EXCEPT ![p] = Append(@, n)]
                /\ queue' = Enqueue(queue, observing, targetNode, p,
                                    Record(<<n>>, <<>>))
                /\ wQueue' = Enqueue(wQueue, wObserving, Body, p,
                                     Record(<<n>>, <<>>))
    /\ UNCHANGED <<targetNode, stopOnFirstFind, ret, observing, calls,
                   lateCalls, cancels, batches, diag, promise, value,
                   wObserving, wBatches, hideVars>>

\* the created nodes that have no parent
Loose == {n \in Created : kind[n] # "none" /\ Detached(n)}

\* what one call inserts: one detached node (p.appendChild(a)) or two
\* (p.append(a, b))
Fragments ==
    {<<a>> : a \in Loose}
        \cup {<<pr[1], pr[2]>> : pr \in {q \in Loose \X Loose : q[1] # q[2]}}

\* p.append(...ns): one childList record with addedNodes = ns
Insert(p, ns) ==
    /\ IsElement(p)
    /\ \A i \in 1..Len(ns) : ns[i] \in Loose /\ p \notin Range(Subtree(ns[i]))
    /\ ops < MaxOps /\ ops' = ops + 1
    /\ children' = [children EXCEPT ![p] = @ \o ns]
    /\ queue' = Enqueue(queue, observing, targetNode, p, Record(ns, <<>>))
    /\ wQueue' = Enqueue(wQueue, wObserving, Body, p, Record(ns, <<>>))
    /\ UNCHANGED <<kind, match, targetNode, stopOnFirstFind, ret, observing,
                   calls, lateCalls, cancels, batches, diag, promise, value,
                   wObserving, wBatches, hideVars>>

\* n.remove(): one childList record with removedNodes = <<n>>
Remove(n) ==
    \E p \in Nodes :
        /\ n \in Range(children[p])
        /\ ops < MaxOps /\ ops' = ops + 1
        /\ children' = [children EXCEPT ![p] = SelectSeq(@, LAMBDA x : x # n)]
        /\ queue' = Enqueue(queue, observing, targetNode, p, Record(<<>>, <<n>>))
        /\ wQueue' = Enqueue(wQueue, wObserving, Body, p, Record(<<>>, <<n>>))
        /\ UNCHANGED <<kind, match, targetNode, stopOnFirstFind, ret, observing,
                       calls, lateCalls, cancels, batches, diag, promise, value,
                       wObserving, wBatches, hideVars>>

\* mutant of SetAttribute: the observers are told of attribute changes
SetAttributeObserved(n) ==
    /\ n \in Created /\ kind[n] = "el"
    /\ ops < MaxOps /\ ops' = ops + 1
    /\ match' = [match EXCEPT ![n] = ~@]
    /\ queue' = Enqueue(queue, observing, targetNode, n,
                        [type |-> "attributes", addedNodes |-> <<>>,
                         removedNodes |-> <<>>])
    /\ wQueue' = Enqueue(wQueue, wObserving, Body, n,
                         [type |-> "attributes", addedNodes |-> <<>>,
                          removedNodes |-> <<>>])
    /\ UNCHANGED <<kind, children, targetNode, stopOnFirstFind, ret, observing,
                   calls, lateCalls, cancels, batches, diag, promise, value,
                   wObserving, wBatches, hideVars>>

\* an attribute of n changes so that n starts or stops matching the
\* selector; observers configured {childList, subtree} get no record
SetAttribute(n) ==
    /\ n \in Created /\ kind[n] = "el"
    /\ ops < MaxOps /\ ops' = ops + 1
    /\ match' = [match EXCEPT ![n] = ~@]
    /\ UNCHANGED <<kind, children, watchVars, waitVars, hideVars>>

(* --------------------------- onNewElement ----------------------------- *)
\* mutant of IsHTMLElement: any node passes
IsAnyNode(t) == t # NoNode

\* targetNode instanceof HTMLElement
IsHTMLElement(t) == t # NoNode /\ IsElement(t)

\* mutant of NodeStep: no disconnect and return after the self match
NodeStepNoReturn(node, stop) ==
    IF kind[node] # "el" THEN [calls |-> <<>>, done |-> FALSE]
    ELSE IF stop THEN
        LET self == IF Matches(node) THEN <<node>> ELSE <<>>
        IN  IF QuerySelector(node) # NoNode
            THEN [calls |-> self \o <<QuerySelector(node)>>, done |-> TRUE]
            ELSE [calls |-> self, done |-> FALSE]
    ELSE [calls |-> (IF Matches(node) THEN <<node>> ELSE <<>>)
                        \o QuerySelectorAll(node),
          done |-> FALSE]

\* mutant of NodeStep: with stop, the descendants are searched before the
\* node itself is tested
NodeStepDescendantFirst(node, stop) ==
    IF kind[node] # "el" THEN [calls |-> <<>>, done |-> FALSE]
    ELSE IF stop THEN
        IF QuerySelector(node) # NoNode
        THEN [calls |-> <<QuerySelector(node)>>, done |-> TRUE]
        ELSE IF Matches(node) THEN [calls |-> <<node>>, done |-> TRUE]
             ELSE [calls |-> <<>>, done |-> FALSE]
    ELSE [calls |-> (IF Matches(node) THEN <<node>> ELSE <<>>)
                        \o QuerySelectorAll(node),
          done |-> FALSE]

\* the body of `for (const node of mutation.addedNodes)` for one node:
\* the callbacks made and whether the handler disconnected and returned
NodeStep(node, stop) ==
    IF kind[node] # "el" THEN [calls |-> <<>>, done |-> FALSE]
    ELSE IF stop THEN
        IF Matches(node) THEN [calls |-> <<node>>, done |-> TRUE]
        ELSE IF QuerySelector(node) # NoNode
             THEN [calls |-> <<QuerySelector(node)>>, done |-> TRUE]
             ELSE [calls |-> <<>>, done |-> FALSE]
    ELSE [calls |-> (IF Matches(node) THEN <<node>> ELSE <<>>)
                        \o QuerySelectorAll(node),
          done |-> FALSE]

\* for (const node of mutation.addedNodes) { ... }
RECURSIVE AddedNodesLoop(_, _)
AddedNodesLoop(nodes, stop) ==
    IF nodes = <<>> THEN [calls |-> <<>>, done |-> FALSE]
    ELSE LET r == NodeStep(Head(nodes), stop)
         IN  IF r.done THEN r
             ELSE LET rest == AddedNodesLoop(Tail(nodes), stop)
                  IN  [calls |-> r.calls \o rest.calls, done |-> rest.done]

\* for (const mutation of mutationsList) { ... }; pending is the record
\* queue of the observer while the handler runs
RECURSIVE MutationsLoop(_, _, _)
MutationsLoop(mutationsList, stop, pending) ==
    IF mutationsList = <<>> THEN [calls |-> <<>>, done |-> FALSE]
    ELSE LET mutation == Head(mutationsList)
             r == IF mutation.type = "childList"
                       /\ Len(mutation.addedNodes) > 0
                  THEN AddedNodesLoop(mutation.addedNodes, stop)
                  ELSE [calls |-> <<>>, done |-> FALSE]
         IN  IF r.done THEN r
             ELSE IF stop /\ Len(TakeRecords(pending)) = 0 THEN r
             ELSE LET rest == MutationsLoop(Tail(mutationsList), stop, <<>>)
                  IN  [calls |-> r.calls \o rest.calls, done |-> rest.done]

\* mutant of onNewElement: the subtree is searched whatever stop is
onNewElementAlwaysFast(t, stop) ==
    /\ ret = "none"
    /\ t \in {Body, NoNode} \cup {n \in Created : kind[n] # "none"}
    /\ targetNode' = t
    /\ stopOnFirstFind' = stop
    /\ IF ~IsHTMLElement(t)
       THEN /\ diag' = diag + 1
            /\ ret' = "null"
            /\ UNCHANGED <<observing, calls>>
       ELSE IF QuerySelector(t) # NoNode
       THEN /\ calls' = Append(calls, QuerySelector(t))
            /\ ret' = "null"
            /\ UNCHANGED <<observing, diag>>
       ELSE /\ observing' = TRUE
            /\ ret' = "observer"
            /\ UNCHANGED <<calls, diag>>
    /\ UNCHANGED <<domVars, queue, lateCalls, cancels, batches, waitVars, hideVars>>

\* onNewElement(t, selector, callback, stop)
onNewElement(t, stop) ==
    /\ ret = "none"
    /\ t \in {Body, NoNode} \cup {n \in Created : kind[n] # "none"}
    /\ targetNode' = t
    /\ stopOnFirstFind' = stop
    /\ IF ~IsHTMLElement(t)
       THEN /\ diag' = diag + 1
            /\ ret' = "null"
            /\ UNCHANGED <<observing, calls>>
       ELSE IF stop /\ QuerySelector(t) # NoNode
       THEN /\ calls' = Append(calls, QuerySelector(t))
            /\ ret' = "null"
            /\ UNCHANGED <<observing, diag>>
       ELSE /\ observing' = TRUE
            /\ ret' = "observer"
            /\ UNCHANGED <<calls, diag>>
    /\ UNCHANGED <<domVars, queue, lateCalls, cancels, batches, waitVars, hideVars>>

\* the host delivers the pending records to the handler (lines 81-120);
\* cancelAt = k > 0: the k-th callback of this run calls
\* observer.disconnect()
Deliver ==
    /\ observing /\ queue # <<>>
    /\ LET r == MutationsLoop(queue, stopOnFirstFind, <<>>)
           d == Disconnect(observing, <<>>)
       IN  \E cancelAt \in 0..Len(r.calls) :
            /\ calls' = calls \o r.calls
            /\ observing' = IF r.done \/ cancelAt > 0 THEN d.observing
                            ELSE observing
            /\ queue' = IF r.done \/ cancelAt > 0 THEN d.queue ELSE <<>>
            /\ lateCalls' = lateCalls
                   + (IF cancelAt > 0 THEN Len(r.calls) - cancelAt ELSE 0)
            /\ cancels' = cancels + (IF cancelAt > 0 THEN 1 ELSE 0)
    /\ batches' = batches + 1
    /\ UNCHANGED <<domVars, targetNode, stopOnFirstFind, ret, diag, waitVars, hideVars>>

\* the caller calls disconnect() on the observer onNewElement returned
Cancel ==
    /\ ret = "observer"
    /\ ops < MaxOps /\ ops' = ops + 1
    /\ observing' = Disconnect(observing, queue).observing
    /\ queue' = Disconnect(observing, queue).queue
    /\ cancels' = cancels + 1
    /\ UNCHANGED <<kind, match, children, targetNode, stopOnFirstFind, ret,
                   calls, lateCalls, batches, diag, waitVars, hideVars>>

(* -------------------------- waitForElement ---------------------------- *)
\* waitForElement(selector): the promise executor (lines 33-49)
waitForElement ==
    /\ promise = "none"
    /\ IF DocumentQuerySelector # NoNode
       THEN /\ promise' = "resolved"
            /\ value' = DocumentQuerySelector
            /\ UNCHANGED wObserving
       ELSE /\ promise' = "pending"
            /\ wObserving' = TRUE
            /\ UNCHANGED value
    /\ UNCHANGED <<domVars, watchVars, hideVars, wQueue, wBatches>>

\* mutant of WaitDeliver: the observer is not disconnected on resolution
WaitDeliverNoDisconnect ==
    /\ wObserving /\ wQueue # <<>>
    /\ IF DocumentQuerySelector # NoNode
       THEN /\ promise' = "resolved"
            /\ value' = DocumentQuerySelector
       ELSE UNCHANGED <<promise, value>>
    /\ wQueue' = <<>>
    /\ wBatches' = wBatches + 1
    /\ UNCHANGED <<domVars, watchVars, hideVars, wObserving>>

\* the host delivers the pending records to the handler (lines 38-43)
WaitDeliver ==
    /\ wObserving /\ wQueue # <<>>
    /\ IF DocumentQuerySelector # NoNode
       THEN /\ wObserving' = Disconnect(wObserving, <<>>).observing
            /\ wQueue' = Disconnect(wObserving, <<>>).queue
            /\ promise' = "resolved"
            /\ value' = IF promise = "pending" THEN DocumentQuerySelector
                        ELSE value
       ELSE /\ wQueue' = <<>>
            /\ UNCHANGED <<wObserving, promise, value>>
    /\ wBatches' = wBatches + 1
    /\ UNCHANGED <<domVars, watchVars, hideVars>>

(* --------------------- isElementEffectivelyHidden --------------------- *)
\* the largest coordinate, extent and viewport size of the inputs
MaxCoord == 2

\* null / undefined as the element argument
Null == [null |-> TRUE]

\* the serialisations of computedStyle.opacity
Opacities == {"0", "0.5", "1"}

\* the elements: what line 134 to 160 read from one
Elements ==
    [null : {FALSE}, isConnected : BOOLEAN,
     offsetWidth : 0..1, offsetHeight : 0..1,
     display : {"block", "none"},
     visibility : {"visible", "hidden", "collapse"},
     opacity : Opacities,
     left : (-MaxCoord)..MaxCoord, top : (-MaxCoord)..MaxCoord,
     width : 0..MaxCoord, height : 0..MaxCoord]

\* the viewports
Windows == [innerWidth : 1..MaxCoord, innerHeight : 1..MaxCoord]

\* parseFloat on a serialised opacity: the number, in tenths
ParseFloat(s) ==
    CASE s = "0" -> 0
      [] s = "0.5" -> 5
      [] s = "1" -> 10

\* mutant of isElementEffectivelyHidden: a rectangle that ends on the
\* left or top edge of the viewport counts as inside
isElementEffectivelyHiddenStrict(e, w) ==
    IF e.null \/ ~e.isConnected THEN TRUE
    ELSE IF e.offsetWidth = 0 \/ e.offsetHeight = 0 THEN TRUE
    ELSE IF \/ e.display = "none"
            \/ e.visibility = "hidden"
            \/ e.visibility = "collapse"
            \/ ParseFloat(e.opacity) = 0
    THEN TRUE
    ELSE IF \/ e.width = 0
            \/ e.height = 0
            \/ e.left + e.width < 0
            \/ e.top + e.height < 0
            \/ e.left >= w.innerWidth
            \/ e.top >= w.innerHeight
    THEN TRUE
    ELSE FALSE

\* isElementEffectivelyHidden(element) with the viewport w (lines 133-164)
isElementEffectivelyHidden(e, w) ==
    IF e.null \/ ~e.isConnected THEN TRUE
    ELSE IF e.offsetWidth = 0 \/ e.offsetHeight = 0 THEN TRUE
    ELSE IF \/ e.display = "none"
            \/ e.visibility = "hidden"
            \/ e.visibility = "collapse"
            \/ ParseFloat(e.opacity) = 0
    THEN TRUE
    ELSE IF \/ e.width = 0
            \/ e.height = 0
            \/ e.left + e.width <= 0
            \/ e.top + e.height <= 0
            \/ e.left >= w.innerWidth
            \/ e.top >= w.innerHeight
    THEN TRUE
    ELSE FALSE

\* a script calls isElementEffectivelyHidden(element)
CheckHidden ==
    /\ hidden' = <<isElementEffectivelyHidden(element, window)>>
    /\ UNCHANGED <<domVars, watchVars, waitVars, element, window>>

(* -------------------------- specifications ---------------------------- *)
InitPage ==
    /\ kind = [n \in Created |-> "none"]
    /\ match = [n \in Created |-> FALSE]
    /\ children = [n \in Nodes |-> <<>>]
    /\ ops = 0
    /\ targetNode = NoNode
    /\ stopOnFirstFind = FALSE
    /\ ret = "none"
    /\ observing = FALSE
    /\ queue = <<>>
    /\ calls = <<>>
    /\ lateCalls = 0
    /\ cancels = 0
    /\ batches = 0
    /\ diag = 0
    /\ promise = "none"
    /\ value = NoNode
    /\ wObserving = FALSE
    /\ wQueue = <<>>
    /\ wBatches = 0

Init ==
    /\ InitPage
    /\ element = Null
    /\ window = [innerWidth |-> 1, innerHeight |-> 1]
    /\ hidden = <<>>

\* any element of the bounds in any viewport, not yet tested
InitHidden ==
    /\ InitPage
    /\ element \in Elements \cup {Null}
    /\ window \in Windows
    /\ hidden = <<>>

\* the page's scripts, inserting under the nodes of parents
PageStep(parents) ==
    \/ \E k \in {"el", "text"}, m \in BOOLEAN, p \in parents \cup {NoNode} :
          CreateNode(k, m, p)
    \/ \E p \in parents, ns \in Fragments : Insert(p, ns)
    \/ \E n \in Created : Remove(n)
    \/ \E n \in Created : SetAttribute(n)

Next ==
    \/ PageStep(Nodes \ {DocHead})
    \/ \E t \in Nodes \cup {NoNode}, stop \in BOOLEAN : onNewElement(t, stop)
    \/ Deliver
    \/ Cancel

\* onNewElement and the page
Spec == Init /\ [][Next]_vars

NextWait ==
    \/ PageStep(Nodes)
    \/ waitForElement
    \/ WaitDeliver

\* waitForElement and the page
SpecWait == Init /\ [][NextWait]_vars

\* the host delivers pending records in a microtask: a handler with
\* records pending eventually runs
FairSpecWait == SpecWait /\ WF_vars(WaitDeliver)

NextHidden == CheckHidden

\* isElementEffectivelyHidden on every element and viewport of the bounds
SpecHidden == InitHidden /\ [][NextHidden]_vars


(* ------------------- vocabulary of the properties --------------------- *)
\* this step is a handler run of the observer of onNewElement
DeliverStep == batches' = batches + 1

\* the callback invocations made by this step
NewCalls == SubSeq(calls', Len(calls) + 1, Len(calls'))

\* n is a text node
IsText(n) == n \in Created /\ kind[n] = "text"

\* the parent of n, or NoNode
ParentOf(n) ==
    IF Detached(n) THEN NoNode ELSE CHOOSE p \in Nodes : n \in Range(children[p])

\* the proper ancestors of n
RECURSIVE Ancestors(_)
Ancestors(n) ==
    IF ParentOf(n) = NoNode THEN {} ELSE {ParentOf(n)} \cup Ancestors(ParentOf(n))

\* the added element nodes of a batch, in host order
AddedElements(batch) ==
    SelectSeq(Flatten([i \in 1..Len(batch) |-> batch[i].addedNodes]),
              LAMBDA n : kind[n] = "el")

\* the matching elements a batch brings: an added element that matches, or
\* a matching descendant of an added element
BatchMatches(batch) ==
    {n \in Created : /\ kind[n] = "el" /\ match[n]
                     /\ \E a \in Range(AddedElements(batch)) :
                            n = a \/ a \in Ancestors(n)}

(* ------------------------------ claims -------------------------------- *)
\* C1: a session with stopOnFirstFind invokes the callback at most once in
\* total, the synchronous invocation of the fast path included, and once
\* the callback has been invoked the observer is disconnected with nothing
\* left to deliver.
C1_AtMostOneCall ==
    (ret # "none" /\ stopOnFirstFind) =>
        /\ Len(calls) <= 1
        /\ Len(calls) = 1 => (~observing /\ queue = <<>>)

\* C1 witness: a stopOnFirstFind observer has reported one element from a
\* batch while another matching element is in the watched subtree.
C1_Witness ==
    /\ stopOnFirstFind /\ ret = "observer" /\ batches > 0
    /\ Len(calls) = 1
    /\ \E n \in Range(Descendants(targetNode)) : Matches(n) /\ n # calls[1]

\* C2: a stopOnFirstFind observer (started with no match in the subtree)
\* that is handed a batch bringing exactly one matching element, in any
\* mutation record of the batch, as an added node or as a descendant of
\* one, invokes the callback exactly once, with that element.
C2_OneInsertionOneCall ==
    [][(DeliverStep /\ stopOnFirstFind /\ calls = <<>>
            /\ Cardinality(BatchMatches(queue)) = 1)
        => (Len(calls') = 1 /\ calls'[1] \in BatchMatches(queue))]_vars

\* C3: no callback invocation begins after a disconnect() of the observer
\* has returned.
C3_NoCallAfterCancel == lateCalls = 0

\* the position of n among its siblings
IndexOf(n) ==
    LET sibs == children[ParentOf(n)]
    IN  CHOOSE i \in 1..Len(sibs) : sibs[i] = n

\* the child indexes on the way from the top of n's tree down to n
RECURSIVE Path(_)
Path(n) ==
    IF n = DocHead THEN <<1>>
    ELSE IF n = Body THEN <<2>>
    ELSE IF ParentOf(n) = NoNode THEN <<>>
    ELSE Path(ParentOf(n)) \o <<IndexOf(n)>>

\* x comes before y in document order (x, y distinct nodes of one tree)
DocBefore(x, y) ==
    LET px == Path(x)
        py == Path(y)
    IN  \E i \in 1..Len(py) :
            /\ \A j \in 1..(i - 1) : j <= Len(px) /\ px[j] = py[j]
            /\ i = Len(px) + 1 \/ (i <= Len(px) /\ px[i] < py[i])

\* the matching descendants of a
MatchingUnder(a) ==
    {n \in Created : kind[n] = "el" /\ match[n] /\ a \in Ancestors(n)}

\* the elements of S in document order
InDocOrder(S) ==
    CHOOSE q \in [1..Cardinality(S) -> S] :
        /\ \A x \in S : \E i \in 1..Cardinality(S) : q[i] = x
        /\ \A i, j \in 1..Cardinality(S) : i < j => DocBefore(q[i], q[j])

\* what is due for one added element: itself if it matches, then its
\* matching descendants
Due(a) ==
    (IF kind[a] = "el" /\ match[a] THEN <<a>> ELSE <<>>)
        \o InDocOrder(MatchingUnder(a))

\* C4: every handler run of an observer without stopOnFirstFind invokes the
\* callback, for each added element in host order, with the element itself
\* if it matches and then with every matching descendant of it, and with
\* nothing else.
C4_AllMatchesReported ==
    [][(DeliverStep /\ ~stopOnFirstFind) =>
        LET added == AddedElements(queue)
        IN  NewCalls = Flatten([i \in 1..Len(added) |-> Due(added[i])])]_vars

\* C4 witness: one batch inserted a non-matching wrapper holding two
\* matching elements, and the callback ran twice, once with each.
C4_Witness ==
    /\ ~stopOnFirstFind /\ batches = 1 /\ ops = 4
    /\ Len(calls) = 2 /\ calls[1] # calls[2]
    /\ \E w \in Created :
        /\ ~Matches(w) /\ children[w] = calls
        /\ children[targetNode] = <<w>>

\* C5: an observer without stopOnFirstFind stays registered until the
\* caller disconnects it, and every batch that brings one new matching
\* element yields exactly one callback invocation, with that element.
C5_OneCallPerBatch ==
    [][(~stopOnFirstFind /\ ret = "observer") =>
        /\ (observing /\ ~observing') => cancels' = cancels + 1
        /\ (DeliverStep /\ Cardinality(BatchMatches(queue)) = 1)
              => (Len(NewCalls) = 1 /\ NewCalls[1] \in BatchMatches(queue))]_vars

\* C6: onNewElement with stopOnFirstFind on an HTMLElement that has a
\* matching descendant invokes the callback once, with the first matching
\* descendant in document order, returns null and registers no observer;
\* nothing is ever reported or registered after a null return.
C6_FastPath ==
    [][/\ (ret = "none" /\ ret' # "none" /\ stopOnFirstFind'
             /\ targetNode' # NoNode /\ ~IsText(targetNode')
             /\ MatchingUnder(targetNode') # {})
          => /\ calls' = <<InDocOrder(MatchingUnder(targetNode'))[1]>>
             /\ ret' = "null" /\ diag' = diag
             /\ ~observing' /\ queue' = <<>>
       /\ ret = "null" => (calls' = calls /\ ~observing' /\ queue' = <<>>
                              /\ batches' = batches)]_vars

\* C6 witness: the fast path reported one element although the subtree of
\* the target holds another match as well.
C6_Witness ==
    /\ stopOnFirstFind /\ ret = "null" /\ diag = 0
    /\ Len(calls) = 1
    /\ \E n \in MatchingUnder(targetNode) : n # calls[1]

\* n is in the document
Connected(n) ==
    n \in {Body, DocHead} \/ Body \in Ancestors(n) \/ DocHead \in Ancestors(n)

\* C7 as stated: a target that is not a connected element node is rejected
\* with a diagnostic, null and no observer.
C7_RejectsUnconnected ==
    [][(ret = "none" /\ ret' # "none"
          /\ (targetNode' = NoNode \/ IsText(targetNode')
                \/ ~Connected(targetNode')))
        => (ret' = "null" /\ diag' = diag + 1 /\ ~observing'
              /\ calls' = calls)]_vars

\* C7 amended: a target that is not an HTMLElement (null, or a node that is
\* no element) is rejected with one diagnostic, null and no observer, and
\* no callback is ever invoked afterwards.
C7_RejectsNonElement ==
    [][/\ (ret = "none" /\ ret' # "none"
             /\ (targetNode' = NoNode \/ IsText(targetNode')))
          => (ret' = "null" /\ diag' = diag + 1 /\ ~observing'
                /\ calls' = calls)
       /\ diag > 0 => (diag' = diag /\ calls' = <<>> /\ ~observing'
                          /\ queue' = <<>> /\ batches' = batches)]_vars

\* C7 witness: a text node was refused as target, and a matching element
\* was inserted into the document afterwards.
C7_Witness ==
    /\ diag = 1 /\ ret = "null" /\ calls = <<>>
    /\ IsText(targetNode)
    /\ \E n \in MatchingUnder(Body) : n > targetNode

\* C8: once the observer is disconnected it stays so: a further
\* disconnect() changes nothing, no record is queued, no batch is handled
\* and no callback is invoked.
C8_CancelIdempotent ==
    [][(ret = "observer" /\ ~observing) =>
        /\ ~observing' /\ queue' = <<>> /\ queue = <<>>
        /\ calls' = calls /\ batches' = batches /\ lateCalls' = lateCalls
        /\ cancels' # cancels =>
              UNCHANGED <<kind, match, children, targetNode, stopOnFirstFind,
                          ret, observing, queue, calls, lateCalls, batches,
                          diag, waitVars, hideVars>>]_vars

\* C8 witness: a stopOnFirstFind observer that disconnected itself after
\* its callback has been disconnected twice more by the caller.
C8_Witness ==
    /\ stopOnFirstFind /\ ret = "observer" /\ batches > 0
    /\ Len(calls) = 1 /\ lateCalls = 0
    /\ cancels = 2 /\ ~observing

\* a matching element is in the document
DocumentHasMatch ==
    \E n \in Created : kind[n] = "el" /\ match[n] /\ Connected(n)

\* the matching elements in the document
DocumentMatches ==
    {n \in Created : kind[n] = "el" /\ match[n] /\ Connected(n)}

\* C9: once waitForElement has been called and a matching element is in
\* the document to stay, the promise is eventually resolved (the host
\* delivering every pending batch).
C9_EventuallyResolves ==
    <>[](promise # "none" /\ DocumentHasMatch) => <>(promise = "resolved")

\* C10: after waitForElement the promise is pending exactly while the
\* observer is registered; a handler run resolves it with the first match
\* of the document if there is one and leaves it pending otherwise; once
\* resolved, the value stays and no handler runs again.
C10_ResolvesOnce ==
    [][/\ promise' # "none" => ((promise' = "pending") <=> wObserving')
       /\ promise = "resolved" =>
             (promise' = "resolved" /\ value' = value /\ wBatches' = wBatches)
       /\ wBatches' # wBatches =>
             IF DocumentMatches # {}
             THEN /\ promise' = "resolved"
                  /\ value' = InDocOrder(DocumentMatches)[1]
                  /\ wQueue' = <<>>
             ELSE promise' = "pending"]_vars

\* C10 witness: the promise was resolved by the second batch (the first
\* found no match), and the document was changed again afterwards.
C10_Witness ==
    /\ promise = "resolved" /\ wBatches = 2 /\ ~wObserving
    /\ value \notin DocumentMatches

\* C11: waitForElement called while the document holds a match resolves the
\* promise in that call, with the first match of the document, and
\* registers no observer then or later.
C11_ResolvesImmediately ==
    [][/\ (promise = "none" /\ promise' # "none" /\ DocumentMatches # {})
          => /\ promise' = "resolved"
             /\ value' = InDocOrder(DocumentMatches)[1]
             /\ ~wObserving' /\ wQueue' = <<>> /\ wBatches' = wBatches
       /\ (promise = "resolved" /\ wBatches = 0)
          => (~wObserving' /\ wQueue' = <<>> /\ wBatches' = 0
                /\ value' = value)]_vars

\* C11 witness: the promise was resolved by the call itself although the
\* document holds a second match, and an element was added to the body
\* afterwards.
C11_Witness ==
    /\ promise = "resolved" /\ wBatches = 0
    /\ \E n \in DocumentMatches : n # value
    /\ \E n \in Range(children[Body]) : n > value

\* C12: isElementEffectivelyHidden returns true exactly when the element is
\* absent or not connected, or an offset extent is 0, or display is none,
\* visibility is hidden or collapse or the opacity is 0, or the bounding
\* rectangle is empty or lies wholly left of, above, right of or below the
\* viewport; an element that partly overlaps the viewport and passes the
\* other tests is reported not hidden.
C12_HiddenExactly ==
    hidden # <<>> =>
        LET absent == element = Null \/ ~element.isConnected
            noExtent == element.offsetWidth = 0 \/ element.offsetHeight = 0
            styled == \/ element.display = "none"
                      \/ element.visibility \in {"hidden", "collapse"}
                      \/ element.opacity = "0"
            right == element.left + element.width
            bottom == element.top + element.height
            emptyRect == element.width = 0 \/ element.height = 0
            outside == \/ right <= 0
                       \/ bottom <= 0
                       \/ element.left >= window.innerWidth
                       \/ element.top >= window.innerHeight
            overlaps == /\ element.left < window.innerWidth /\ right > 0
                        /\ element.top < window.innerHeight /\ bottom > 0
        IN  /\ hidden[1] = (absent \/ noExtent \/ styled \/ emptyRect \/ outside)
            /\ (~absent /\ ~noExtent /\ ~styled /\ ~emptyRect /\ overlaps)
                  => ~hidden[1]

\* C12 witness: an element whose rectangle starts left of and above the
\* viewport and ends inside it was reported not hidden.
C12_Witness ==
    /\ hidden = <<FALSE>>
    /\ element.left < 0 /\ element.left + element.width > 0
    /\ element.top < 0 /\ element.top + element.height > 0
    /\ element.opacity = "0.5"

\* C13: when a handler run of a stopOnFirstFind observer invokes the
\* callback, it reports the first match in host order: of the earliest
\* added element of the batch (all records, in order) that matches or has
\* a matching descendant, the element itself if it matches, else its first
\* matching descendant in document order.
C13_FirstInHostOrder ==
    [][(DeliverStep /\ stopOnFirstFind /\ NewCalls # <<>>) =>
        LET hits == SelectSeq(AddedElements(queue), LAMBDA a : Due(a) # <<>>)
        IN  hits # <<>> /\ NewCalls = <<Due(hits[1])[1]>>]_vars

\* C13 witness: one insertion added a childless element and then a wrapper,
\* neither matching, and the stopOnFirstFind observer reported the
\* wrapper's matching child.
C13_Witness ==
    /\ stopOnFirstFind /\ ret = "observer" /\ batches = 1
    /\ Len(calls) = 1
    /\ \E a, w \in Created :
        /\ children[targetNode] = <<a, w>>
        /\ kind[a] = "el" /\ ~Matches(a) /\ children[a] = <<>>
        /\ ~Matches(w) /\ children[w] = calls

\* this step is an attribute change (setAttribute, classList, id)
AttributeStep == match' # match /\ kind' = kind

\* C14: a batch that adds no element node (removals only, or additions of
\* text nodes only) makes the handler invoke no callback and leaves the
\* observer registered as it was, with and without stopOnFirstFind; an
\* attribute change queues nothing for the handler.
C14_OnlyAddedElements ==
    [][/\ (DeliverStep /\ AddedElements(queue) = <<>>)
          => (NewCalls = <<>> /\ observing' = observing
                /\ cancels' = cancels)
       /\ AttributeStep
          => (queue' = queue /\ batches' = batches /\ calls' = calls)]_vars

\* C14 witness: a matching element that was under the target when the
\* observer started has been removed, the batch holding the removal has
\* been handled, and the observer is registered and has reported nothing.
C14_Witness ==
    /\ ret = "observer" /\ targetNode = Body /\ observing
    /\ ops = 2 /\ batches = 1 /\ calls = <<>> /\ queue = <<>>
    /\ kind[1] = "el" /\ match[1] /\ Detached(1)
    /\ kind[2] = "none"

\* the added nodes of a batch, in host order
AddedNodes(batch) == Flatten([i \in 1..Len(batch) |-> batch[i].addedNodes])

\* C15: onNewElement without stopOnFirstFind on an HTMLElement invokes no
\* callback in the call and returns a registered observer, whatever
\* matches the subtree holds; afterwards every element the callback gets
\* is an added node of the batch being handled or a descendant of one.
C15_NoInitialScan ==
    [][/\ (ret = "none" /\ ret' # "none" /\ ~stopOnFirstFind'
             /\ targetNode' # NoNode /\ ~IsText(targetNode'))
          => (calls' = calls /\ ret' = "observer" /\ observing'
                /\ diag' = diag)
       /\ (DeliverStep /\ ~stopOnFirstFind)
          => \A i \in 1..Len(NewCalls) :
                \E a \in Range(AddedNodes(queue)) :
                    NewCalls[i] = a \/ a \in Ancestors(NewCalls[i])]_vars

\* C15 witness: a matching element was under the target when the observer
\* started; a second one was added afterwards and is the only element
\* reported.
C15_Witness ==
    /\ ~stopOnFirstFind /\ ret = "observer" /\ targetNode = Body
    /\ ops = 2 /\ batches = 1 /\ queue = <<>>
    /\ children[Body] = <<1, 2>>
    /\ Matches(1) /\ Matches(2)
    /\ calls = <<2>>

\* C16: a handler run of an observer without stopOnFirstFind passes each
\* element to the callback at most once, nested insertions included.
C16_NoDuplicates ==
    [][(DeliverStep /\ ~stopOnFirstFind) =>
        \A i, j \in 1..Len(NewCalls) :
            NewCalls[i] = NewCalls[j] => i = j]_vars

====
